---- MODULE Spec2Model ----
(***************************************************************************)
(* Human-in-the-loop flight selection orchestration (function_app.py).    *)
(*                                                                         *)
(* One orchestration instance is modelled together with the HTTP handlers *)
(* that start it and signal it, the two activities, the three agents      *)
(* (whose answers are nondeterministic inputs) and the durable timers.    *)
(* An action is one handler, or one episode of travel_orchestration       *)
(* between two yields.                                                     *)
(***************************************************************************)
EXTENDS Integers, Sequences, FiniteSets, TLC

\* ---------------------------------------------------------------- bounds
MaxBatch == 3      \* longest list of flights an agent response carries
MaxStrLen == 2     \* longest refinement text
MaxSignals == 3    \* events raised per behaviour

\* ------------------------------------------------------ program constants
max_attempts == 3
FLIGHT_INFO_AGENT_NAME == "FlightInfoAgent"
USER_CHOICE_PROCESSOR_AGENT_NAME == "UserChoiceProcessorAgent"
TRAVEL_SUMMARY_AGENT_NAME == "TravelSummaryAgent"
USER_CHOICE_EVENT == "UserChoiceEvent"

\* ------------------------------------------------------------ value model
\* Python's None / a present value: <<>> / <<v>>.
None == <<>>
Some(v) == <<v>>
IsNone(o) == Len(o) = 0
Get(o) == o[1]

\* Text is a sequence of characters; " " stands for any whitespace.
Chars == {" ", "a"}
Strings == UNION {[1..n -> Chars] : n \in 0..MaxStrLen}
IsSpace(c) == c = " "

RECURSIVE lstrip(_)
lstrip(s) == IF Len(s) > 0 /\ IsSpace(Head(s)) THEN lstrip(Tail(s)) ELSE s

RECURSIVE rstrip(_)
rstrip(s) ==
    IF Len(s) > 0 /\ IsSpace(s[Len(s)]) THEN rstrip(SubSeq(s, 1, Len(s) - 1)) ELSE s

\* str.strip()
strip(s) == rstrip(lstrip(s))

\* Items of a "flights" list. The k-th flight of the g-th response is a flight
\* of its own (the tool draws flight numbers at random); an item is well
\* formed, or one that FlightOption rejects (a missing or ill-typed field).
Flight(g, k, valid) == [gen |-> g, pos |-> k, valid |-> valid]
NoFlight == Flight(0, 0, FALSE)

\* The lists the g-th response can carry: up to MaxBatch items, all well
\* formed or the last one malformed.
Batches(g) ==
    {[k \in 1..n |-> Flight(g, k, k < n \/ last_valid)] :
        n \in 0..MaxBatch, last_valid \in BOOLEAN}

\* FlightOption.model_validate(item) succeeds
FlightOption_valid(item) == item.valid

\* JSON values an agent's text can decode to: a non-object, or an object whose
\* "flights" key is absent, null, or a list.
JNone == [t |-> "none", f |-> "absent", items |-> <<>>]
JArray == [t |-> "array", f |-> "absent", items |-> <<>>]
JObject(f, items) == [t |-> "object", f |-> f, items |-> items]
JsonValues(g) ==
    {JArray, JObject("absent", <<>>), JObject("null", <<>>)}
        \cup {JObject("list", b) : b \in Batches(g)}

\* An agent result's "response" text: text that is not JSON, or the text of a
\* JSON value.
NoResult == [json |-> FALSE, value |-> JNone]
NotJsonText == [json |-> FALSE, value |-> JArray]
JsonText(v) == [json |-> TRUE, value |-> v]
FlightResponses(g) == {NotJsonText} \cup {JsonText(v) : v \in JsonValues(g)}

\* json.loads(text): the decoded value, or JSONDecodeError
json_loads_ok(text) == text.json
json_loads(text) == text.value

\* flights_json.get("flights", [])
get_flights(content) == IF content.f = "list" THEN content.items ELSE <<>>

\* notify_user(content) returns normally: content.get exists (a mapping),
\* the "flights" value can be iterated, every item validates.
notify_user_ok(content) ==
    /\ content.t = "object"
    /\ content.f # "null"
    /\ \A i \in 1..Len(get_flights(content)) : FlightOption_valid(get_flights(content)[i])

\* class UserChoice: both fields optional, both default to None.
UserChoice(sel, ref) == [selection |-> sel, refinement_prompt |-> ref]
Selections == 0..(MaxBatch + 1)
NoChoice == UserChoice(None, None)
\* The objects that validate as UserChoice: a selection alone, a refinement
\* text alone, neither, and both (with an empty or a one-letter text).
UserChoices ==
    {NoChoice}
        \cup {UserChoice(Some(k), None) : k \in Selections}
        \cup {UserChoice(None, Some(s)) : s \in Strings}
        \cup {UserChoice(Some(k), Some(s)) : k \in Selections, s \in {<<>>, <<"a">>}}

\* The choice agent's result. "structured_response": absent, an object that
\* validates as UserChoice, or one that does not. "response": absent, blank
\* text, text that is not JSON, JSON that is no object, a JSON object that
\* validates as UserChoice, or a JSON object that does not.
Part(k, uc) == [k |-> k, uc |-> uc]
StructuredParts ==
    {Part("absent", NoChoice), Part("invalid", NoChoice)}
        \cup {Part("valid", uc) : uc \in UserChoices}
ResponseParts ==
    {Part(k, NoChoice) : k \in {"absent", "blank", "notjson", "nonobject", "invalid"}}
        \cup {Part("valid", uc) : uc \in UserChoices}
FewResponseParts ==
    {Part("absent", NoChoice), Part("notjson", NoChoice),
     Part("valid", UserChoice(Some(1), None))}
ChoiceResults ==
    {[structured_response |-> s, response |-> r] :
        s \in StructuredParts \ {Part("absent", NoChoice)}, r \in FewResponseParts}
    \cup {[structured_response |-> Part("absent", NoChoice), response |-> r] :
        r \in ResponseParts}

\* _coerce_structured(result, UserChoice): the validated value, or the
\* exception that leaves the function.
Coerced(uc) == [ok |-> TRUE, exc |-> "", value |-> uc]
CoerceRaises(exc) == [ok |-> FALSE, exc |-> exc, value |-> NoChoice]
ParseError == "ValueError: Agent response could not be parsed as UserChoice."
ValidationError == "ValidationError: UserChoice"

\* Mutant: a structured_response that does not validate falls back to the text.
_coerce_structured_FallsBack(result) ==
    LET structured == result.structured_response
        response_text == result.response
    IN  IF structured.k = "valid"
        THEN Coerced(structured.uc)
        ELSE IF response_text.k = "valid"
             THEN Coerced(response_text.uc)
             ELSE IF response_text.k = "invalid" \/ structured.k = "invalid"
                  THEN CoerceRaises(ValidationError)
                  ELSE CoerceRaises(ParseError)

_coerce_structured(result) ==
    LET structured == result.structured_response
        response_text == result.response
    IN  IF structured.k # "absent"
        THEN IF structured.k = "valid"
             THEN Coerced(structured.uc)
             ELSE CoerceRaises(ValidationError)
        ELSE IF response_text.k \in {"absent", "blank"}
             THEN CoerceRaises(ParseError)
             ELSE IF response_text.k = "notjson"
                  THEN CoerceRaises(ParseError)
                  ELSE IF response_text.k = "nonobject"
                       THEN CoerceRaises(ParseError)
                       ELSE IF response_text.k = "valid"
                            THEN Coerced(response_text.uc)
                            ELSE CoerceRaises(ValidationError)

\* ------------------------------------------------------------------ state
VARIABLES
    runtimeStatus,      \* the runtime's status of the instance
    pc,                 \* the yield travel_orchestration is suspended at
    input,              \* client_input of start_new
    prompt,             \* local prompt
    attempt,            \* local attempt
    custom_status,      \* context.set_custom_status
    flight_info_agent_result,  \* local: the last FlightInfoAgent response
    flights_json,       \* local flights_json
    choice_result,      \* choice_task.result, the payload of the consumed event
    choice,             \* local choice (None before the first coercion)
    selected_flight,    \* local selected_flight
    output,             \* the orchestration's return value
    failure,            \* the exception that ended the orchestration
    inbox,              \* completions delivered to the instance, in history order
    timers,             \* the durable timer of each iteration
    calls,              \* what the orchestrator scheduled, in order
    resolved,           \* which task won task_any in each iteration
    messages,           \* the messages argument of the agent run last scheduled
    raised,             \* how many events raise_event has raised for the instance
    coerce_result,      \* the argument result of a call of _coerce_structured
    coerce_return,      \* what that call returned or raised
    history,            \* the results the runtime recorded for the yields, in order
    other,              \* a second instance of travel_orchestration
    opened,             \* per iteration: how many events had been raised when its window opened
    clock               \* the time, and the times of the timers and of the events

\* What lies outside the instance's own state: the call of _coerce_structured
\* taken alone, the runtime's record of the instance, a second instance, and
\* the record of when the windows opened and of the time.
aux == <<coerce_result, coerce_return, history, other, opened, clock>>

vars ==
    <<runtimeStatus, pc, input, prompt, attempt, custom_status,
      flight_info_agent_result, flights_json, choice_result, choice,
      selected_flight, output, failure, inbox, timers, calls, resolved, messages,
      raised, aux>>

Iterations == 1..max_attempts
\* The request body of POST travel/run.
Inputs == {<<"a">>}

Event(n) == [type |-> "event", id |-> n]
TimerFired(i) == [type |-> "timer", id |-> i]

\* One scheduled operation: an agent run, an activity, the wait for the
\* external event or the timer, with the iteration that scheduled it.
Call(op, name, i) == [op |-> op, name |-> name, iter |-> i]

\* The messages argument of an agent run: the prompt text, the payload of the
\* consumed event, or the selected flight's model_dump().
Messages(text, payload, flight) == [text |-> text, payload |-> payload, flight |-> flight]
NoMessages == Messages(<<>>, 0, NoFlight)


\* No instance exists yet.
NoInstance ==
    /\ runtimeStatus = "NotFound"
    /\ pc = "none"
    /\ input = <<>>
    /\ prompt = <<>>
    /\ attempt = 0
    /\ custom_status = <<"", 0>>
    /\ flight_info_agent_result = NoResult
    /\ flights_json = JNone
    /\ choice_result = 0
    /\ choice = None
    /\ selected_flight = NoFlight
    /\ output = None
    /\ failure = ""
    /\ inbox = <<>>
    /\ timers = [i \in Iterations |-> "none"]
    /\ calls = <<>>
    /\ resolved = [i \in Iterations |-> "none"]
    /\ messages = NoMessages
    /\ raised = 0

\* No call of _coerce_structured is under way.
NotCalled == [ok |-> FALSE, exc |-> "not called", value |-> NoChoice]
NoCall ==
    /\ coerce_result = [structured_response |-> Part("absent", NoChoice),
                        response |-> Part("absent", NoChoice)]
    /\ coerce_return = NotCalled

\* The second instance before it is started; sent counts, for either
\* instance, the events a request has addressed to it.
InstanceIds == {"a", "b"}
NotStarted ==
    [runtimeStatus |-> "NotFound", pc |-> "none", prompt |-> <<>>, attempt |-> 0,
     custom_status |-> <<"", 0>>, flight_info_agent_result |-> NoResult,
     flights_json |-> JNone, choice_result |-> 0, choice |-> None,
     selected_flight |-> NoFlight, output |-> None, failure |-> "",
     calls |-> <<>>, resolved |-> [i \in Iterations |-> "none"],
     messages |-> NoMessages]
NoOther ==
    [input |-> <<>>, gen |-> NotStarted, inbox |-> <<>>, raised |-> 0,
     sent |-> [id \in InstanceIds |-> 0]]

NoWindow == [i \in Iterations |-> 0]

\* Time in half hours. The clock at the start: the time is 0, no window has
\* opened, no timer has a time to fire at.
Hour == 2
MaxTime == 4
NoClock ==
    [now |-> 0,
     opened_at |-> [i \in Iterations |-> 0],
     fire_at |-> [i \in Iterations |-> 0]]

Init ==
    /\ NoInstance
    /\ NoCall
    /\ history = <<>>
    /\ other = NoOther
    /\ opened = NoWindow
    /\ clock = NoClock

\* ------------------------------------------------ leaving an episode
\* The orchestrator function suspends at a yield.
Yield(at) ==
    /\ runtimeStatus' = "Running"
    /\ pc' = at
    /\ UNCHANGED <<output, failure>>

\* An exception leaves travel_orchestration: the instance is Failed.
Raise(exc) ==
    /\ runtimeStatus' = "Failed"
    /\ pc' = "end"
    /\ failure' = exc
    /\ UNCHANGED output

\* Mutant: a bare return, the instance completes without output.
Return_NoValue(value) ==
    /\ runtimeStatus' = "Completed"
    /\ pc' = "end"
    /\ UNCHANGED <<output, failure>>

\* return value: the instance is Completed with that output.
Return(value) ==
    /\ runtimeStatus' = "Completed"
    /\ pc' = "end"
    /\ output' = Some(value)
    /\ UNCHANGED failure

TimeoutError == "TimeoutError: User choice timed out."
RuntimeError == "RuntimeError: Flight could not be selected after 3 iteration(s)."
JSONDecodeError == "JSONDecodeError"
OutOfRangeError == "ValueError: Selected flight index is out of range."
EmptyRefinementError == "ValueError: Refinement prompt cannot be empty."
IndexError == "IndexError: list index out of range"
OptionValidationError == "ValidationError: FlightOption"
NotifyFailed == "Activity function 'notify_user' failed"
AgentFailed == "Agent run failed"

\* ------------------------------------------------ travel_orchestration
\* Mutant: the loop admits one iteration more.
LoopCondition_OneMore(att) == att <= max_attempts

\* while attempt < max_attempts
LoopCondition(att) == att < max_attempts

\* The loop head, reached with attempt = att, prompt = pr and custom status
\* st: the next iteration up to its first yield, or the raise after the loop.
WhileLoop(att, pr, st) ==
    IF LoopCondition(att)
    THEN /\ attempt' = att + 1
         /\ custom_status' = <<"Generating flight options. Iteration #", att + 1>>
         /\ calls' = Append(calls, Call("agent", FLIGHT_INFO_AGENT_NAME, att + 1))
         /\ messages' = Messages(pr, 0, NoFlight)
         /\ Yield("flight_info_agent")
    ELSE /\ attempt' = att
         /\ custom_status' = st
         /\ UNCHANGED <<calls, messages>>
         /\ Raise(RuntimeError)

\* POST travel/run: start_new stores the body as the instance's input.
start_orchestration(body) ==
    /\ runtimeStatus = "NotFound"
    /\ runtimeStatus' = "Pending"
    /\ input' = body
    /\ UNCHANGED <<pc, prompt, attempt, custom_status, flight_info_agent_result,
                   flights_json, choice_result, choice, selected_flight, output,
                   failure, inbox, timers, calls, resolved, messages, raised>>

\* The first episode: from the function's entry to the first agent run.
OrchestrationStarts ==
    /\ runtimeStatus = "Pending"
    /\ prompt' = input
    /\ WhileLoop(0, input, <<"Starting flight search", 0>>)
    /\ UNCHANGED <<input, flight_info_agent_result, flights_json, choice_result,
                   choice, selected_flight, inbox, timers, resolved, raised>>

\* The FlightInfoAgent run completes with a response text.
FlightInfoAgentReturns(response) ==
    /\ runtimeStatus = "Running"
    /\ pc = "flight_info_agent"
    /\ flight_info_agent_result' = response
    /\ IF json_loads_ok(response)
       THEN /\ flights_json' = json_loads(response)
            /\ custom_status' =
                   <<"Requesting choice of flight or further refinement. Iteration #",
                     attempt>>
            /\ calls' = Append(calls, Call("activity", "notify_user", attempt))
            /\ Yield("notify_user")
       ELSE /\ Raise(JSONDecodeError)
            /\ UNCHANGED <<flights_json, custom_status, calls>>
    /\ UNCHANGED <<input, prompt, attempt, choice_result, choice, selected_flight,
                   inbox, timers, resolved, messages, raised>>

\* The notify_user activity completes: normally, and the orchestrator registers
\* the wait and the timer and yields task_any; or with the exception the
\* activity raised, which the yield re-raises in the orchestrator.
NotifyUserReturns ==
    /\ runtimeStatus = "Running"
    /\ pc = "notify_user"
    /\ IF notify_user_ok(flights_json)
       THEN /\ timers' = [timers EXCEPT ![attempt] = "pending"]
            /\ calls' = calls \o
                   << Call("wait", USER_CHOICE_EVENT, attempt),
                      Call("timer", "create_timer", attempt) >>
            /\ Yield("task_any")
       ELSE /\ Raise(NotifyFailed)
            /\ UNCHANGED <<timers, calls>>
    /\ UNCHANGED <<input, prompt, attempt, custom_status, flight_info_agent_result,
                   flights_json, choice_result, choice, selected_flight, inbox,
                   resolved, messages, raised>>

\* Mutant: any fired timer completes timeout_task.
Completes_AnyTimer(m, att) == m.type \in {"event", "timer"}

\* Mutant: no timer completes timeout_task.
Completes_EventOnly(m, att) == m.type = "event"

\* A delivered completion completes one of the two tasks of iteration att:
\* any UserChoiceEvent completes choice_task, only the timer created in this
\* iteration completes timeout_task.
Completes(m, att) == m.type = "event" \/ m = TimerFired(att)

\* task_any([choice_task, timeout_task]): the position in the history of the
\* first completion of either task, 0 while neither has completed.
Winner(box, att) ==
    IF \E k \in 1..Len(box) : Completes(box[k], att)
    THEN CHOOSE k \in 1..Len(box) :
             /\ Completes(box[k], att)
             /\ \A j \in 1..(k - 1) : ~Completes(box[j], att)
    ELSE 0

\* The completions left for later waits once position w is consumed: the
\* events not consumed; a fired timer matches no later task.
Remaining(box, w) ==
    SelectSeq([k \in 1..Len(box) |-> IF k = w THEN TimerFired(0) ELSE box[k]],
              LAMBDA m : m.type = "event")

\* winner == choice_task: cancel the timer, run the choice agent on the payload.
ChoiceWon(payload) ==
    /\ timers' = [timers EXCEPT ![attempt] = IF @ = "pending" THEN "cancelled" ELSE @]
    /\ choice_result' = payload
    /\ calls' = Append(calls, Call("agent", USER_CHOICE_PROCESSOR_AGENT_NAME, attempt))
    /\ messages' = Messages(<<>>, payload, NoFlight)
    /\ Yield("choice_agent")
    /\ UNCHANGED <<prompt, attempt, custom_status>>

\* Mutant: the timeout raises the error of the exhausted budget.
TimerWon_WrongError ==
    /\ custom_status' = <<"User choice timed out. Treating as rejection.", 0>>
    /\ Raise(RuntimeError)
    /\ UNCHANGED <<prompt, attempt, timers, choice_result, calls, messages>>

\* Mutant: the timeout sets the status and forgets to raise.
TimerWon_NoRaise ==
    /\ WhileLoop(attempt, prompt, <<"User choice timed out. Treating as rejection.", 0>>)
    /\ UNCHANGED <<prompt, timers, choice_result>>

\* else: the timer won.
TimerWon ==
    /\ custom_status' = <<"User choice timed out. Treating as rejection.", 0>>
    /\ Raise(TimeoutError)
    /\ UNCHANGED <<prompt, attempt, timers, choice_result, calls, messages>>

\* The orchestrator resumes from task_any with the first completed task.
TaskAnyReturns ==
    /\ runtimeStatus = "Running"
    /\ pc = "task_any"
    /\ Winner(inbox, attempt) # 0
    /\ LET w == Winner(inbox, attempt)
           m == inbox[w]
       IN  /\ inbox' = Remaining(inbox, w)
           /\ resolved' =
                  [resolved EXCEPT ![attempt] = IF m.type = "event" THEN "signal" ELSE "timer"]
           /\ IF m.type = "event" THEN ChoiceWon(m.id) ELSE TimerWon
    /\ UNCHANGED <<input, flight_info_agent_result, flights_json, choice,
                   selected_flight, raised>>

\* Mutant: the selection is used as a 0-based index.
SelectedIndex_NoOffset(selection) == selection

\* index = choice.selection - 1
SelectedIndex(selection) == selection - 1

\* Mutant: the test for a negative index is missing.
IndexOutOfRange_NoLowerBound(index, flights) == index >= Len(flights)

\* if index < 0 or index >= len(flights)
IndexOutOfRange(index, flights) == index < 0 \/ index >= Len(flights)

\* flights[index]: a Python list subscript, negative indices count from the end.
ListHas(list, index) == -Len(list) <= index /\ index < Len(list)
ListGet(list, index) == IF index >= 0 THEN list[index + 1] ELSE list[Len(list) + index + 1]

\* Mutant: the text is tested without strip().
IsEmptyRefinement_NoStrip(refinement_prompt) ==
    IsNone(refinement_prompt) \/ Len(Get(refinement_prompt)) = 0

\* choice.refinement_prompt is None or not choice.refinement_prompt.strip()
IsEmptyRefinement(refinement_prompt) ==
    IsNone(refinement_prompt) \/ Len(strip(Get(refinement_prompt))) = 0

\* Mutant: the text is annotated without strip().
RefinedPrompt_NoStrip(text) == <<"User refinement: ">> \o text

\* f"User refinement: {choice.refinement_prompt.strip()}"
RefinedPrompt(text) == <<"User refinement: ">> \o strip(text)

\* if choice.selection is not None: validate the index, build the flight and
\* run the summary agent.
SelectionBranch(selection) ==
    LET index == SelectedIndex(selection)
        flights == get_flights(flights_json)
    IN  IF IndexOutOfRange(index, flights)
        THEN /\ Raise(OutOfRangeError)
             /\ UNCHANGED <<selected_flight, custom_status, calls, messages>>
        ELSE IF ~ListHas(flights, index)
        THEN /\ Raise(IndexError)
             /\ UNCHANGED <<selected_flight, custom_status, calls, messages>>
        ELSE IF ~FlightOption_valid(ListGet(flights, index))
        THEN /\ Raise(OptionValidationError)
             /\ UNCHANGED <<selected_flight, custom_status, calls, messages>>
        ELSE /\ selected_flight' = ListGet(flights, index)
             /\ custom_status' =
                    <<"Flight selected by human reviewer. Summarizing flight...", 0>>
             /\ calls' = Append(calls, Call("agent", TRAVEL_SUMMARY_AGENT_NAME, attempt))
             /\ messages' = Messages(<<>>, 0, ListGet(flights, index))
             /\ Yield("summary_agent")

\* else: validate the refinement text, replace the prompt, loop.
RefinementBranch(refinement_prompt) ==
    IF IsEmptyRefinement(refinement_prompt)
    THEN /\ Raise(EmptyRefinementError)
         /\ UNCHANGED <<prompt, attempt, custom_status, calls, messages>>
    ELSE /\ prompt' = RefinedPrompt(Get(refinement_prompt))
         /\ WhileLoop(attempt, RefinedPrompt(Get(refinement_prompt)),
                <<"Refinement received. Regenerating flight options. Iteration #",
                  attempt>>)

\* The choice agent's run completes with a result: coerce it and branch.
ChoiceAgentReturns(result) ==
    /\ runtimeStatus = "Running"
    /\ pc = "choice_agent"
    /\ LET c == _coerce_structured(result)
       IN  IF ~c.ok
           THEN /\ Raise(c.exc)
                /\ UNCHANGED <<choice, prompt, attempt, custom_status, calls,
                               messages, selected_flight>>
           ELSE /\ choice' = Some(c.value)
                /\ IF ~IsNone(c.value.selection)
                   THEN /\ SelectionBranch(Get(c.value.selection))
                        /\ UNCHANGED <<prompt, attempt>>
                   ELSE /\ RefinementBranch(c.value.refinement_prompt)
                        /\ UNCHANGED selected_flight
    /\ UNCHANGED <<input, flight_info_agent_result, flights_json, choice_result,
                   inbox, timers, resolved, raised>>

\* Mutant: the function returns without calling summarize.
SummaryAgentReturns_NoSummarize ==
    /\ runtimeStatus = "Running"
    /\ pc = "summary_agent"
    /\ custom_status' = <<"Flight booked successfully at", 0>>
    /\ Return([flight |-> selected_flight])
    /\ UNCHANGED <<input, prompt, attempt, flight_info_agent_result, flights_json,
                   choice_result, choice, selected_flight, inbox, timers, calls,
                   resolved, messages, raised>>

\* The summary agent's run completes: call the summarize activity.
SummaryAgentReturns ==
    /\ runtimeStatus = "Running"
    /\ pc = "summary_agent"
    /\ calls' = Append(calls, Call("activity", "summarize", attempt))
    /\ Yield("summarize")
    /\ UNCHANGED <<input, prompt, attempt, custom_status, flight_info_agent_result,
                   flights_json, choice_result, choice, selected_flight, inbox,
                   timers, resolved, messages, raised>>

\* return {"flight": selected_flight.model_dump()}
Outcome(flight) == [flight |-> flight]

\* The summarize activity completes: set the final status and return.
SummarizeReturns ==
    /\ runtimeStatus = "Running"
    /\ pc = "summarize"
    /\ custom_status' = <<"Flight booked successfully at", 0>>
    /\ Return(Outcome(selected_flight))
    /\ UNCHANGED <<input, prompt, attempt, flight_info_agent_result, flights_json,
                   choice_result, choice, selected_flight, inbox, timers, calls,
                   resolved, messages, raised>>

\* An agent run ends with an exception, which the yield re-raises.
AgentRunFails ==
    /\ runtimeStatus = "Running"
    /\ pc \in {"flight_info_agent", "choice_agent", "summary_agent"}
    /\ Raise(AgentFailed)
    /\ UNCHANGED <<input, prompt, attempt, custom_status, flight_info_agent_result,
                   flights_json, choice_result, choice, selected_flight, inbox,
                   timers, calls, resolved, messages, raised>>

\* ------------------------------------------------------- the environment
\* client.raise_event: the runtime queues the event for an instance that has
\* not ended; an instance that has ended takes no event.
Accepts == runtimeStatus \in {"Pending", "Running"}

\* POST travel/choice/{instanceId}: 400 without an instance id, an error of
\* raise_event when no such instance exists; else the body is raised as a
\* UserChoiceEvent. The body of the n-th event is modelled as n.
send_human_approval(has_instance_id) ==
    /\ raised < MaxSignals
    /\ IF ~has_instance_id \/ runtimeStatus = "NotFound"
       THEN UNCHANGED <<raised, inbox>>
       ELSE /\ raised' = raised + 1
            /\ inbox' = IF Accepts THEN Append(inbox, Event(raised + 1)) ELSE inbox
    /\ UNCHANGED <<runtimeStatus, pc, input, prompt, attempt, custom_status,
                   flight_info_agent_result, flights_json, choice_result, choice,
                   selected_flight, output, failure, timers, calls, resolved,
                   messages>>

\* The durable timer of iteration i expires while the instance runs. The
\* runtime delivers the expiry also when the task was cancelled.
TimerFires(i) ==
    /\ runtimeStatus = "Running"
    /\ timers[i] \in {"pending", "cancelled"}
    /\ timers' = [timers EXCEPT ![i] = IF @ = "pending" THEN "fired" ELSE "expired"]
    /\ inbox' = Append(inbox, TimerFired(i))
    /\ UNCHANGED <<runtimeStatus, pc, input, prompt, attempt, custom_status,
                   flight_info_agent_result, flights_json, choice_result, choice,
                   selected_flight, output, failure, calls, resolved, messages,
                   raised>>

\* ------------------------------------------------ GET travel/status
\* The instanceId route parameter of a request: missing, the id start_new
\* gave the instance, or an id no instance has.
InstanceId == "a"
RouteParams == {None, Some(InstanceId), Some("b")}

\* client.get_status(instance_id): without such an instance the runtime
\* answers a status whose fields are all None. The output of a Completed
\* instance is what the orchestrator returned; of a Failed one, the failure
\* text or nothing, as the runtime decides.
DurableOrchestrationStatus(id, rs, cs, in, out) ==
    [instance_id |-> id, runtime_status |-> rs, custom_status |-> cs,
     input_ |-> in, output |-> out]
get_status(instance_id) ==
    IF instance_id # InstanceId \/ runtimeStatus = "NotFound"
    THEN {DurableOrchestrationStatus(None, None, None, None, None)}
    ELSE {DurableOrchestrationStatus(Some(InstanceId), Some(runtimeStatus),
                                     Some(custom_status), Some(input), out) :
             out \in IF runtimeStatus = "Failed" THEN {None, Some(failure)}
                     ELSE {output}}

HttpResponse(code, body) == [status_code |-> code, body |-> body]
ErrorBody(text) == [error |-> text]

\* Mutant: the answer of the runtime is not looked at, every id is reported.
StatusResponse_NoCheck(status) ==
    HttpResponse(200, [instanceId |-> status.instance_id,
                       runtimeStatus |-> status.runtime_status,
                       workflowStatus |-> status.custom_status,
                       input |-> status.input_,
                       output |-> status.output])

\* Lines 361-390: 404 when the runtime knows no runtime_status, else 200 with
\* the fields of the status; input and output only when they are not None.
StatusResponse(status) ==
    IF IsNone(status.runtime_status)
    THEN HttpResponse(404, ErrorBody("Instance not found."))
    ELSE HttpResponse(200, [instanceId |-> status.instance_id,
                            runtimeStatus |-> status.runtime_status,
                            workflowStatus |-> status.custom_status,
                            input |-> status.input_,
                            output |-> status.output])

\* The responses the handler can give to a request with that route parameter.
get_orchestration_status(route_param) ==
    IF IsNone(route_param) \/ route_param = Some("")
    THEN {HttpResponse(400, ErrorBody("Missing instanceId"))}
    ELSE {StatusResponse(status) : status \in get_status(Get(route_param))}

\* The handler answers and changes nothing.
StatusRequest(route_param) ==
    /\ get_orchestration_status(route_param) # {}
    /\ UNCHANGED vars

\* The steps of the instance and of its clients; none of them touches what
\* lies outside the instance.
Next ==
    \/ (\E body \in Inputs : start_orchestration(body)) /\ UNCHANGED aux
    \/ OrchestrationStarts /\ UNCHANGED aux
    \/ (\E response \in FlightResponses(attempt) : FlightInfoAgentReturns(response))
           /\ UNCHANGED aux
    \/ NotifyUserReturns /\ UNCHANGED aux
    \/ TaskAnyReturns /\ UNCHANGED aux
    \/ (\E result \in ChoiceResults : ChoiceAgentReturns(result)) /\ UNCHANGED aux
    \/ SummaryAgentReturns /\ UNCHANGED aux
    \/ SummarizeReturns /\ UNCHANGED aux
    \/ AgentRunFails /\ UNCHANGED aux
    \/ (\E has_instance_id \in BOOLEAN : send_human_approval(has_instance_id))
           /\ UNCHANGED aux
    \/ (\E i \in Iterations : TimerFires(i)) /\ UNCHANGED aux

Spec == Init /\ [][Next]_vars

\* ------------------------------------------------------------- vocabulary
Terminal == runtimeStatus \in {"Completed", "Failed"}

\* How many times the orchestrator has scheduled an operation.
Count(op, name) ==
    Cardinality({k \in 1..Len(calls) : calls[k].op = op /\ calls[k].name = name})
CountAt(op, name, i) ==
    Cardinality({k \in 1..Len(calls) :
        calls[k].op = op /\ calls[k].name = name /\ calls[k].iter = i})
LastCall == calls[Len(calls)]

\* The orchestrator consumes the choice agent's result and accepts a refinement:
\* the only episodes that set these statuses after a choice agent run.
RefinementAccepted ==
    /\ pc = "choice_agent"
    /\ \/ custom_status' =
              <<"Refinement received. Regenerating flight options. Iteration #", attempt>>
       \/ custom_status' = <<"Generating flight options. Iteration #", attempt + 1>>

\* Everything of the instance but the count of raise_event calls.
instance ==
    <<runtimeStatus, pc, input, prompt, attempt, custom_status,
      flight_info_agent_result, flights_json, choice_result, choice,
      selected_flight, output, failure, inbox, timers, calls, resolved, messages>>

\* ------------------------------------------------------------------ C1
C1_BudgetCounts ==
    /\ attempt \in 0..max_attempts
    /\ Count("agent", FLIGHT_INFO_AGENT_NAME) = attempt
    /\ Count("agent", FLIGHT_INFO_AGENT_NAME) <= max_attempts
    /\ Count("activity", "notify_user") <= attempt
    /\ Count("wait", USER_CHOICE_EVENT) <= attempt
    /\ Count("timer", "create_timer") <= attempt
    /\ \A i \in Iterations : CountAt("agent", FLIGHT_INFO_AGENT_NAME, i) <= 1

C1_ExhaustedStep ==
    (RefinementAccepted /\ attempt = max_attempts)
        => /\ runtimeStatus' = "Failed"
           /\ failure' = RuntimeError
           /\ attempt' = max_attempts
           /\ calls' = calls
           /\ timers' = timers

\* C1: the attempt counter stays in 0..max_attempts; FlightInfoAgent is run,
\* the user notified and a decision awaited at most max_attempts times (once
\* per attempt counted); and the episode that accepts the refinement of
\* iteration max_attempts ends the instance with the RuntimeError of the
\* exhausted budget, scheduling nothing and creating no timer.
C1_RetryBudget == [] C1_BudgetCounts /\ [][C1_ExhaustedStep]_vars

\* Three refinements were accepted and the budget is exhausted.
C1_Witness ==
    /\ failure = RuntimeError
    /\ attempt = max_attempts
    /\ \A i \in Iterations : resolved[i] = "signal"

\* ------------------------------------------------------------------ C2
\* The timer of the open window has completed and no event was delivered
\* before it.
TimerFirst ==
    /\ pc = "task_any"
    /\ \E k \in 1..Len(inbox) :
           /\ inbox[k] = TimerFired(attempt)
           /\ \A j \in 1..(k - 1) : inbox[j].type # "event"

C2_TimeoutStep ==
    (TimerFirst /\ pc' # pc)
        => /\ runtimeStatus' = "Failed"
           /\ failure' = TimeoutError
           /\ custom_status' = <<"User choice timed out. Treating as rejection.", 0>>
           /\ calls' = calls

C2_AfterTimeoutStep == (failure = TimeoutError) => UNCHANGED instance

\* C2: when the timer of the open window completes before any event, the
\* episode that resumes the orchestrator fails the instance with the
\* TimeoutError and schedules nothing; from then on no step, a later
\* raise_event included, changes anything of the instance.
C2_TimeoutIsFinal == [][C2_TimeoutStep /\ C2_AfterTimeoutStep]_vars

\* The instance timed out in its first window, and every event raised since
\* its start was raised after that (none was queued, none consumed).
C2_Witness ==
    /\ failure = TimeoutError
    /\ raised >= 1
    /\ inbox = <<>>
    /\ \A i \in Iterations : resolved[i] # "signal"

\* ------------------------------------------------------------------ C3
C3_Resolution ==
    /\ \A i \in Iterations :
        /\ resolved[i] = "signal" =>
               /\ timers[i] # "pending"
               /\ CountAt("agent", USER_CHOICE_PROCESSOR_AGENT_NAME, i) = 1
        /\ resolved[i] = "timer" =>
               /\ timers[i] = "fired"
               /\ i = attempt
               /\ failure = TimeoutError
               /\ CountAt("agent", USER_CHOICE_PROCESSOR_AGENT_NAME, i) = 0
        /\ resolved[i] = "none" =>
               CountAt("agent", USER_CHOICE_PROCESSOR_AGENT_NAME, i) = 0
    /\ failure = TimeoutError => resolved[attempt] = "timer"

C3_ResolvedOnce == \A i \in Iterations : resolved[i] # "none" => resolved'[i] = resolved[i]

C3_LateExpiry ==
    (\E i \in Iterations : timers[i] = "cancelled" /\ timers'[i] = "expired")
        => UNCHANGED <<runtimeStatus, pc, attempt, prompt, custom_status, output,
                       failure, calls, resolved>>

\* C3: each window is resolved by one branch, once: by the signal, and then
\* its timer is no longer pending and the choice agent runs once for it, or by
\* its own fired timer, and then the instance has timed out in that window and
\* no choice agent ran for it. The expiry of a cancelled timer changes nothing
\* of the orchestrator and resolves no later window.
C3_FirstCompletedWins == [] C3_Resolution /\ [][C3_ResolvedOnce /\ C3_LateExpiry]_vars

\* In the second window the event and the window's own timer had both
\* completed when the orchestrator resumed, the event first; the cancelled
\* timer of the first window expired after its window was resolved.
C3_Witness ==
    /\ resolved[1] = "signal"
    /\ timers[1] = "expired"
    /\ resolved[2] = "signal"
    /\ timers[2] = "fired"

\* ------------------------------------------------------------------ C4
\* The decision the orchestrator last coerced, when there is one.
Decided == Len(choice) = 1
Decision == Get(choice)
HasSelection == Decided /\ ~IsNone(Decision.selection)
IsRefinement == Decided /\ IsNone(Decision.selection)
SelectionOf == Get(Decision.selection)
BatchSize == Len(get_flights(flights_json))

ValidationFailures ==
    {ParseError, ValidationError, OutOfRangeError, EmptyRefinementError,
     JSONDecodeError, OptionValidationError}

\* C4: a coerced decision with both fields set, or with neither, fails the
\* instance with a validation or coercion error; it selects no flight and
\* runs no summary.
C4_MalformedDecisionRejected ==
    (Decided /\ (IsNone(Decision.selection) <=> IsNone(Decision.refinement_prompt)))
        => /\ runtimeStatus = "Failed"
           /\ failure \in ValidationFailures
           /\ selected_flight = NoFlight
           /\ Count("agent", TRAVEL_SUMMARY_AGENT_NAME) = 0

\* ------------------------------------------------------------------ C5
\* C5: once a decision with selection k is coerced, with n the size of the
\* batch: if 1 <= k <= n the k-th flight is selected and the summary agent is
\* run; else the instance has failed with the out-of-range ValueError, no
\* flight is selected and neither the summary agent nor summarize was called.
C5_SelectionInRange ==
    HasSelection =>
        IF 1 <= SelectionOf /\ SelectionOf <= BatchSize
        THEN /\ selected_flight = get_flights(flights_json)[SelectionOf]
             /\ Count("agent", TRAVEL_SUMMARY_AGENT_NAME) = 1
             /\ failure \notin ValidationFailures
        ELSE /\ runtimeStatus = "Failed"
             /\ failure = OutOfRangeError
             /\ selected_flight = NoFlight
             /\ output = None
             /\ Count("agent", TRAVEL_SUMMARY_AGENT_NAME) = 0
             /\ Count("activity", "summarize") = 0

\* Selection n+1 of a batch of n >= 1 flights was refused.
C5_Witness ==
    /\ HasSelection
    /\ BatchSize >= 1
    /\ SelectionOf = BatchSize + 1
    /\ failure = OutOfRangeError

\* ------------------------------------------------------------------ C6
\* The batch decoded from the FlightInfoAgent response of the current iteration.
CurrentBatch == get_flights(json_loads(flight_info_agent_result))

C6_Completed ==
    runtimeStatus = "Completed" =>
        /\ HasSelection
        /\ resolved[attempt] = "signal"
        /\ SelectionOf \in 1..Len(CurrentBatch)
        /\ output = Some([flight |-> CurrentBatch[SelectionOf]])
        /\ CurrentBatch[SelectionOf] = Flight(attempt, SelectionOf, TRUE)

C6_Summarizing ==
    pc \in {"summary_agent", "summarize"} =>
        /\ HasSelection
        /\ SelectionOf \in 1..Len(CurrentBatch)
        /\ selected_flight = CurrentBatch[SelectionOf]

C6_SummarizeStep ==
    (pc = "summarize" /\ pc' # pc)
        => /\ runtimeStatus' = "Completed"
           /\ output' = Some([flight |-> selected_flight])

\* C6: from the acceptance of selection k to the return of summarize the
\* selected flight is the k-th flight of the batch of the iteration that
\* consumed the decision; the return of summarize completes the instance, and
\* a Completed instance's output is that flight.
C6_OutputIsSelectedOption ==
    [] (C6_Completed /\ C6_Summarizing) /\ [][C6_SummarizeStep]_vars

\* Selection 2 of the three flights of the second iteration's batch.
C6_Witness ==
    /\ runtimeStatus = "Completed"
    /\ attempt = 2
    /\ Len(CurrentBatch) = 3
    /\ output = Some([flight |-> Flight(2, 2, TRUE)])

\* ------------------------------------------------------------------ C7
Blank(text) == \A j \in 1..Len(text) : text[j] = " "

\* t is text without its leading and trailing whitespace.
IsTrimOf(t, text) ==
    \E a, b \in 0..Len(text) :
        /\ a + b <= Len(text)
        /\ t = SubSeq(text, a + 1, Len(text) - b)
        /\ \A j \in 1..a : text[j] = " "
        /\ \A j \in (Len(text) - b + 1)..Len(text) : text[j] = " "
        /\ Len(t) > 0 => (t[1] # " " /\ t[Len(t)] # " ")

C7_Refinement ==
    /\ IsRefinement =>
           IF IsNone(Decision.refinement_prompt) \/ Blank(Get(Decision.refinement_prompt))
           THEN /\ runtimeStatus = "Failed"
                /\ failure = EmptyRefinementError
           ELSE /\ Len(prompt) >= 2
                /\ prompt[1] = "User refinement: "
                /\ IsTrimOf(Tail(prompt), Get(Decision.refinement_prompt))
    /\ pc = "flight_info_agent" => messages.text = prompt

C7_RejectedStep ==
    (pc = "choice_agent" /\ failure' = EmptyRefinementError)
        => (prompt' = prompt /\ calls' = calls)

\* C7: once a decision without selection is coerced: if its text is missing,
\* empty or whitespace the instance has failed with the empty-refinement
\* ValueError, in an episode that left the prompt as it was; else the prompt
\* is "User refinement: " followed by the text without its leading and
\* trailing whitespace. Every FlightInfoAgent run is passed the prompt.
C7_RefinementPrompt == [] C7_Refinement /\ [][C7_RejectedStep]_vars

\* The refinement " a" was accepted and FlightInfoAgent runs on the trimmed,
\* annotated prompt.
C7_Witness ==
    /\ pc = "flight_info_agent"
    /\ attempt = 2
    /\ choice = Some(UserChoice(None, Some(<<" ", "a">>)))
    /\ prompt = <<"User refinement: ", "a">>
    /\ messages.text = prompt

\* ------------------------------------------------------------------ C8
\* C8: once notify_user has completed in an iteration, however it ended, the
\* wait for the event and the timer of that iteration are registered; the
\* activity is called at most once per iteration.
C8_NotifyFailureTolerated ==
    \A i \in Iterations :
        /\ CountAt("activity", "notify_user", i) <= 1
        /\ (CountAt("activity", "notify_user", i) = 1 /\ ~(pc = "notify_user" /\ attempt = i))
               => /\ CountAt("wait", USER_CHOICE_EVENT, i) = 1
                  /\ CountAt("timer", "create_timer", i) = 1

\* ------------------------------------------------------------------ C9
C9_Shape ==
    /\ runtimeStatus = "Completed" =>
           /\ pc = "end"
           /\ failure = ""
           /\ output = Some([flight |-> selected_flight])
           /\ selected_flight.valid
    /\ runtimeStatus = "Failed" =>
           /\ pc = "end"
           /\ failure # ""
           /\ output = None
    /\ ~Terminal => (output = None /\ failure = "")

C9_TerminalStep == Terminal => UNCHANGED instance

\* C9: a Completed instance carries the selected flight as output and no
\* failure, a Failed one a failure and no output, any other neither; once
\* Completed or Failed, no step (a raise_event included) changes anything of
\* the instance: status, output, failure, prompt, attempt, custom status,
\* scheduled calls, timers, queued events.
C9_TerminalOnce == [] C9_Shape /\ [][C9_TerminalStep]_vars

\* The instance completed in its first iteration on the first event; a second
\* event was raised after that (it is neither queued nor consumed).
C9_Witness ==
    /\ runtimeStatus = "Completed"
    /\ attempt = 1
    /\ raised = 2
    /\ inbox = <<>>

\* ------------------------------------------------------------------ C10
C10_Fatal ==
    /\ (flight_info_agent_result # NoResult /\ ~json_loads_ok(flight_info_agent_result))
           => /\ runtimeStatus = "Failed"
              /\ failure = JSONDecodeError
              /\ LastCall = Call("agent", FLIGHT_INFO_AGENT_NAME, attempt)
    /\ failure \in {ParseError, ValidationError}
           => /\ runtimeStatus = "Failed"
              /\ LastCall = Call("agent", USER_CHOICE_PROCESSOR_AGENT_NAME, attempt)
    /\ (HasSelection /\ ~(1 <= SelectionOf /\ SelectionOf <= BatchSize))
           => /\ runtimeStatus = "Failed"
              /\ failure = OutOfRangeError
              /\ LastCall = Call("agent", USER_CHOICE_PROCESSOR_AGENT_NAME, attempt)
    /\ (IsRefinement /\ (IsNone(Decision.refinement_prompt)
                            \/ Blank(Get(Decision.refinement_prompt))))
           => /\ runtimeStatus = "Failed"
              /\ failure = EmptyRefinementError
              /\ LastCall = Call("agent", USER_CHOICE_PROCESSOR_AGENT_NAME, attempt)

C10_FailingStep ==
    (failure = "" /\ failure' \in ValidationFailures)
        => /\ runtimeStatus' = "Failed"
           /\ calls' = calls
           /\ timers' = timers
           /\ attempt' = attempt
           /\ prompt' = prompt

\* C10: a FlightInfoAgent response that is not JSON, a choice agent result
\* that cannot be coerced, a selection out of range and an empty refinement
\* each leave the instance Failed with the error's exception, the agent run
\* that produced the erroneous value being the last operation scheduled; the
\* failing episode schedules nothing, creates no timer and starts no iteration.
C10_ValidationIsFatal == [] C10_Fatal /\ [][C10_FailingStep]_vars

\* A whitespace refinement failed the instance in an iteration before the last.
C10_Witness ==
    /\ failure = EmptyRefinementError
    /\ attempt < max_attempts
    /\ IsRefinement
    /\ Decision.refinement_prompt = Some(<<" ">>)

\* ------------------------------------------------------------------ C11
TimedOutStatus == <<"User choice timed out. Treating as rejection.", 0>>
LastRefinementStatus ==
    <<"Refinement received. Regenerating flight options. Iteration #", max_attempts>>

C11_Reasons ==
    /\ failure = TimeoutError <=> (attempt >= 1 /\ resolved[attempt] = "timer")
    /\ failure = TimeoutError <=> custom_status = TimedOutStatus
    /\ failure = RuntimeError <=> custom_status = LastRefinementStatus
    /\ failure = RuntimeError =>
           /\ attempt = max_attempts
           /\ \A i \in Iterations : resolved[i] = "signal"
           /\ Count("agent", USER_CHOICE_PROCESSOR_AGENT_NAME) = max_attempts
           /\ IsRefinement
           /\ ~Blank(Get(Decision.refinement_prompt))
    /\ failure \in ValidationFailures =>
           /\ \A i \in Iterations : resolved[i] # "timer"
           /\ custom_status # TimedOutStatus
           /\ custom_status # LastRefinementStatus

C11_ReasonStep ==
    /\ (failure = "" /\ failure' = TimeoutError) <=> (TimerFirst /\ pc' # pc)
    /\ (failure = "" /\ failure' = RuntimeError)
           <=> (RefinementAccepted /\ attempt = max_attempts)

\* C11: the instance fails with the TimeoutError exactly in the episode in
\* which the timer of the open window won, and with the RuntimeError of the
\* exhausted budget exactly in the episode that accepts the refinement of
\* iteration max_attempts (every iteration then having been resolved by a
\* signal); an instance that failed with a validation or coercion error has
\* no window resolved by a timer and neither status of the two.
C11_FailureReasons == [] C11_Reasons /\ [][C11_ReasonStep]_vars

\* The third window timed out after two accepted refinements: the last
\* iteration ends with the timeout, not with the exhausted budget.
C11_Witness ==
    /\ failure = TimeoutError
    /\ attempt = max_attempts
    /\ resolved[1] = "signal"
    /\ resolved[2] = "signal"

\* ------------------------------------------------------------------ C12
\* _coerce_structured taken alone: every agent result of the two parts, and
\* one call on it.
AgentResults ==
    {[structured_response |-> s, response |-> r] :
        s \in StructuredParts, r \in ResponseParts}

CoerceInit ==
    /\ NoInstance
    /\ coerce_result \in AgentResults
    /\ coerce_return = NotCalled
    /\ history = <<>>
    /\ other = NoOther
    /\ opened = NoWindow
    /\ clock = NoClock

CoerceCall ==
    /\ coerce_return = NotCalled
    /\ coerce_return' = _coerce_structured(coerce_result)
    /\ UNCHANGED <<coerce_result, history, other, opened, clock, instance, raised>>

CoerceNext == CoerceCall

CoerceSpec == CoerceInit /\ [][CoerceNext]_vars

\* model.model_validate on a part that holds an object.
Validated(part) ==
    IF part.k = "valid" THEN Coerced(part.uc) ELSE CoerceRaises(ValidationError)

\* C12: once called, a present structured_response alone decides the return
\* (the same with every response text); with it absent, a text that decodes
\* to a JSON object is validated; every other text, or none, raises the
\* ValueError that names UserChoice; a returned value is always a UserChoice
\* that validates.
C12_Coercion ==
    coerce_return # NotCalled =>
        LET structured == coerce_result.structured_response
            response_text == coerce_result.response
        IN  /\ structured.k # "absent" =>
                /\ coerce_return = Validated(structured)
                /\ \A r \in ResponseParts :
                       _coerce_structured([coerce_result EXCEPT !.response = r])
                           = coerce_return
            /\ (structured.k = "absent" /\ response_text.k \in {"valid", "invalid"}) =>
                   coerce_return = Validated(response_text)
            /\ (structured.k = "absent" /\ response_text.k \notin {"valid", "invalid"}) =>
                   coerce_return = CoerceRaises(ParseError)
            /\ coerce_return.ok =>
                   /\ coerce_return.value \in UserChoices
                   /\ \/ structured = Part("valid", coerce_return.value)
                      \/ response_text = Part("valid", coerce_return.value)

\* An object that does not validate came with a text that would: the call
\* raised the validation error and did not fall back to the text.
C12_Witness ==
    /\ coerce_result.structured_response.k = "invalid"
    /\ coerce_result.response.k = "valid"
    /\ coerce_return = CoerceRaises(ValidationError)

\* ------------------------------------------------------------------ C14
\* The orchestrator as the runtime executes it: the generator is run from its
\* entry, and every yield whose result is recorded returns that result at
\* once, until a yield has none.
\*
\* The result recorded for one yield: what an agent run, an activity or
\* task_any returned, or that it raised.
Result(kind, ok, response, result, id) ==
    [kind |-> kind, ok |-> ok, response |-> response, result |-> result, id |-> id]
NoAgentResult ==
    [structured_response |-> Part("absent", NoChoice),
     response |-> Part("absent", NoChoice)]
Returned(kind) == Result(kind, TRUE, NoResult, NoAgentResult, 0)
Raised(kind) == Result(kind, FALSE, NoResult, NoAgentResult, 0)
FlightResult(response) == Result("flight_info_agent", TRUE, response, NoAgentResult, 0)
ChoiceResult(result) == Result("choice_agent", TRUE, NoResult, result, 0)
WinnerResult(m) == Result(m.type, TRUE, NoResult, NoAgentResult, m.id)

\* The locals and the effects of one execution of travel_orchestration.
generator ==
    [runtimeStatus |-> runtimeStatus, pc |-> pc, prompt |-> prompt,
     attempt |-> attempt, custom_status |-> custom_status,
     flight_info_agent_result |-> flight_info_agent_result,
     flights_json |-> flights_json, choice_result |-> choice_result,
     choice |-> choice, selected_flight |-> selected_flight, output |-> output,
     failure |-> failure, calls |-> calls, resolved |-> resolved,
     messages |-> messages]

GenYield(g, at) == [g EXCEPT !.runtimeStatus = "Running", !.pc = at]
GenRaise(g, exc) == [g EXCEPT !.runtimeStatus = "Failed", !.pc = "end", !.failure = exc]
GenReturn(g, value) ==
    [g EXCEPT !.runtimeStatus = "Completed", !.pc = "end", !.output = Some(value)]

\* The loop head, with the locals of g.
GenWhileLoop(g) ==
    IF LoopCondition(g.attempt)
    THEN GenYield([g EXCEPT
             !.attempt = @ + 1,
             !.custom_status = <<"Generating flight options. Iteration #", g.attempt + 1>>,
             !.calls = Append(@, Call("agent", FLIGHT_INFO_AGENT_NAME, g.attempt + 1)),
             !.messages = Messages(g.prompt, 0, NoFlight)],
           "flight_info_agent")
    ELSE GenRaise(g, RuntimeError)

\* Mutant: attempt is kept outside the function, and an execution that finds
\* recorded results starts from what an earlier execution counted.
attempt_at_entry_Global(h) == IF h = <<>> THEN 0 ELSE 1

\* attempt = 0: a local, set anew by every execution.
attempt_at_entry(h) == 0

\* From the function's entry to the first yield, before any recorded result
\* of h is used.
Entry(in, h) ==
    GenWhileLoop(
        [runtimeStatus |-> "Running", pc |-> "none", prompt |-> in,
         attempt |-> attempt_at_entry(h),
         custom_status |-> <<"Starting flight search", 0>>,
         flight_info_agent_result |-> NoResult, flights_json |-> JNone,
         choice_result |-> 0, choice |-> None, selected_flight |-> NoFlight,
         output |-> None, failure |-> "", calls |-> <<>>,
         resolved |-> [i \in Iterations |-> "none"], messages |-> NoMessages])

\* if choice.selection is not None
GenSelectionBranch(g, selection) ==
    LET index == SelectedIndex(selection)
        flights == get_flights(g.flights_json)
    IN  IF IndexOutOfRange(index, flights) THEN GenRaise(g, OutOfRangeError)
        ELSE IF ~ListHas(flights, index) THEN GenRaise(g, IndexError)
        ELSE IF ~FlightOption_valid(ListGet(flights, index))
        THEN GenRaise(g, OptionValidationError)
        ELSE GenYield([g EXCEPT
                 !.selected_flight = ListGet(flights, index),
                 !.custom_status =
                     <<"Flight selected by human reviewer. Summarizing flight...", 0>>,
                 !.calls = Append(@, Call("agent", TRAVEL_SUMMARY_AGENT_NAME, g.attempt)),
                 !.messages = Messages(<<>>, 0, ListGet(flights, index))],
               "summary_agent")

\* else
GenRefinementBranch(g, refinement_prompt) ==
    IF IsEmptyRefinement(refinement_prompt)
    THEN GenRaise(g, EmptyRefinementError)
    ELSE GenWhileLoop([g EXCEPT
             !.prompt = RefinedPrompt(Get(refinement_prompt)),
             !.custom_status =
                 <<"Refinement received. Regenerating flight options. Iteration #",
                   g.attempt>>])

\* The generator suspended at g.pc is sent the recorded result r and runs to
\* its next yield, its return or its raise.
Resume(g, r) ==
    IF g.pc = "flight_info_agent" THEN
        IF ~r.ok THEN GenRaise(g, AgentFailed)
        ELSE IF ~json_loads_ok(r.response)
        THEN GenRaise([g EXCEPT !.flight_info_agent_result = r.response],
                      JSONDecodeError)
        ELSE GenYield([g EXCEPT
                 !.flight_info_agent_result = r.response,
                 !.flights_json = json_loads(r.response),
                 !.custom_status =
                     <<"Requesting choice of flight or further refinement. Iteration #",
                       g.attempt>>,
                 !.calls = Append(@, Call("activity", "notify_user", g.attempt))],
               "notify_user")
    ELSE IF g.pc = "notify_user" THEN
        IF ~r.ok THEN GenRaise(g, NotifyFailed)
        ELSE GenYield([g EXCEPT
                 !.calls = @ \o << Call("wait", USER_CHOICE_EVENT, g.attempt),
                                   Call("timer", "create_timer", g.attempt) >>],
               "task_any")
    ELSE IF g.pc = "task_any" THEN
        IF r.kind = "event"
        THEN GenYield([g EXCEPT
                 !.resolved[g.attempt] = "signal",
                 !.choice_result = r.id,
                 !.calls = Append(@, Call("agent", USER_CHOICE_PROCESSOR_AGENT_NAME,
                                          g.attempt)),
                 !.messages = Messages(<<>>, r.id, NoFlight)],
               "choice_agent")
        ELSE GenRaise([g EXCEPT
                 !.resolved[g.attempt] = "timer",
                 !.custom_status = <<"User choice timed out. Treating as rejection.", 0>>],
               TimeoutError)
    ELSE IF g.pc = "choice_agent" THEN
        IF ~r.ok THEN GenRaise(g, AgentFailed)
        ELSE LET c == _coerce_structured(r.result)
             IN  IF ~c.ok THEN GenRaise(g, c.exc)
                 ELSE IF ~IsNone(c.value.selection)
                 THEN GenSelectionBranch([g EXCEPT !.choice = Some(c.value)],
                                         Get(c.value.selection))
                 ELSE GenRefinementBranch([g EXCEPT !.choice = Some(c.value)],
                                          c.value.refinement_prompt)
    ELSE IF g.pc = "summary_agent" THEN
        IF ~r.ok THEN GenRaise(g, AgentFailed)
        ELSE GenYield([g EXCEPT
                 !.calls = Append(@, Call("activity", "summarize", g.attempt))],
               "summarize")
    ELSE IF g.pc = "summarize" THEN
        GenReturn([g EXCEPT !.custom_status = <<"Flight booked successfully at", 0>>],
                  Outcome(g.selected_flight))
    ELSE g

RECURSIVE ReplayFrom(_, _)
ReplayFrom(g, h) ==
    IF h = <<>> THEN g ELSE ReplayFrom(Resume(g, Head(h)), Tail(h))

\* One execution of the orchestrator function over the recorded results h.
Replay(in, h) == ReplayFrom(Entry(in, h), h)

\* The runtime discards the suspended generator and executes the function
\* again over the recorded results (a resumption after the process was
\* unloaded or restarted).
Replays ==
    /\ runtimeStatus = "Running"
    /\ LET g == Replay(input, history)
       IN  /\ runtimeStatus' = g.runtimeStatus
           /\ pc' = g.pc
           /\ prompt' = g.prompt
           /\ attempt' = g.attempt
           /\ custom_status' = g.custom_status
           /\ flight_info_agent_result' = g.flight_info_agent_result
           /\ flights_json' = g.flights_json
           /\ choice_result' = g.choice_result
           /\ choice' = g.choice
           /\ selected_flight' = g.selected_flight
           /\ output' = g.output
           /\ failure' = g.failure
           /\ calls' = g.calls
           /\ resolved' = g.resolved
           /\ messages' = g.messages
    /\ UNCHANGED <<input, inbox, timers, raised, aux>>

\* The runtime appends the result it hands to the generator to the history.
Records(r) ==
    /\ history' = Append(history, r)
    /\ UNCHANGED <<coerce_result, coerce_return, other, opened, clock>>

\* The results the replayed instance is given: text that is not JSON, one
\* flight, well formed or not, and a few decisions of every kind.
ReplayFlightResponses(g) ==
    {NotJsonText} \cup
        {JsonText(JObject("list", <<Flight(g, 1, valid)>>)) : valid \in BOOLEAN}
ReplayChoices ==
    {UserChoice(Some(1), None), UserChoice(Some(2), None),
     UserChoice(None, Some(<<>>)), UserChoice(None, Some(<<"a">>))}
ReplayChoiceResults ==
    {[structured_response |-> Part("valid", uc), response |-> Part("absent", NoChoice)] :
        uc \in ReplayChoices}
    \cup {[structured_response |-> Part("absent", NoChoice), response |-> r] :
        r \in {Part("notjson", NoChoice), Part("valid", UserChoice(Some(1), None))}}

ReplayNext ==
    \/ (\E body \in Inputs : start_orchestration(body)) /\ UNCHANGED aux
    \/ OrchestrationStarts /\ UNCHANGED aux
    \/ \E response \in ReplayFlightResponses(attempt) :
           FlightInfoAgentReturns(response) /\ Records(FlightResult(response))
    \/ NotifyUserReturns
           /\ Records(IF notify_user_ok(flights_json) THEN Returned("notify_user")
                      ELSE Raised("notify_user"))
    \/ TaskAnyReturns /\ Records(WinnerResult(inbox[Winner(inbox, attempt)]))
    \/ \E result \in ReplayChoiceResults :
           ChoiceAgentReturns(result) /\ Records(ChoiceResult(result))
    \/ SummaryAgentReturns /\ Records(Returned("summary_agent"))
    \/ SummarizeReturns /\ Records(Returned("summarize"))
    \/ AgentRunFails /\ Records(Raised(pc))
    \/ (\E has_instance_id \in BOOLEAN : send_human_approval(has_instance_id))
           /\ UNCHANGED aux
    \/ (\E i \in Iterations : TimerFires(i)) /\ UNCHANGED aux
    \/ Replays

ReplaySpec == Init /\ [][ReplayNext]_vars

\* Sequence s is the beginning of sequence t.
IsPrefix(s, t) == Len(s) <= Len(t) /\ \A k \in 1..Len(s) : s[k] = t[k]

C14_Replayed ==
    runtimeStatus \notin {"NotFound", "Pending"} => generator = Replay(input, history)

C14_Step ==
    /\ IsPrefix(calls, calls')
    /\ (runtimeStatus = "Running" /\ history' = history) => generator' = generator
    /\ (runtimeStatus \notin {"NotFound", "Pending"} /\ history' # history) =>
           /\ Len(history') = Len(history) + 1
           /\ generator' = Resume(generator, history'[Len(history')])

\* C14: at every point the locals, the statuses, the operations scheduled
\* (with the arguments of the last) and the outcome of the instance are those
\* one execution of the function from its entry over the recorded results
\* produces; an execution that finds every result recorded changes nothing
\* and schedules nothing, and one more recorded result only extends the
\* scheduled operations.
C14_ReplayEquivalence == [] C14_Replayed /\ [][C14_Step]_vars

\* A Completed instance after a refinement and a selection: ten recorded
\* results, over which the function was executed again at every yield.
C14_Witness ==
    /\ runtimeStatus = "Completed"
    /\ attempt = 2
    /\ Len(history) = 10
    /\ generator = Replay(input, history)

\* ------------------------------------------------------------------ C15
\* Two instances side by side: instance "a" is the one of the variables
\* above, instance "b" is kept in other, its orchestrator being resumed with
\* Resume.
MaxOtherSignals == 1

\* The results instance "b" is given.
OtherFlightResponses(g) ==
    {NotJsonText, JsonText(JObject("list", <<Flight(g, 1, TRUE)>>))}
OtherChoiceResults ==
    {[structured_response |-> Part("valid", uc), response |-> Part("absent", NoChoice)] :
        uc \in {UserChoice(Some(1), None), UserChoice(Some(2), None),
                UserChoice(None, Some(<<>>))}}

\* start_new for a second request, and the first episode of that instance.
OtherStarts(body) ==
    /\ other.gen.runtimeStatus = "NotFound"
    /\ other' = [other EXCEPT !.input = body, !.gen = Entry(body, <<>>)]

\* What the yield instance "b" is suspended at can return.
OtherResults ==
    LET g == other.gen
        w == Winner(other.inbox, g.attempt)
    IN  IF g.pc = "flight_info_agent"
        THEN {FlightResult(r) : r \in OtherFlightResponses(g.attempt)}
                 \cup {Raised("flight_info_agent")}
        ELSE IF g.pc = "notify_user"
        THEN {IF notify_user_ok(g.flights_json) THEN Returned("notify_user")
              ELSE Raised("notify_user")}
        ELSE IF g.pc = "task_any"
        THEN IF w = 0 THEN {} ELSE {WinnerResult(other.inbox[w])}
        ELSE IF g.pc = "choice_agent"
        THEN {ChoiceResult(r) : r \in OtherChoiceResults}
        ELSE IF g.pc \in {"summary_agent", "summarize"}
        THEN {Returned(g.pc)}
        ELSE {}

\* One episode of instance "b".
OtherResumes(r) ==
    /\ other.gen.runtimeStatus = "Running"
    /\ r \in OtherResults
    /\ other' = [other EXCEPT
           !.gen = Resume(@, r),
           !.inbox = IF other.gen.pc = "task_any"
                     THEN Remaining(@, Winner(@, other.gen.attempt))
                     ELSE @]

\* The timer of the open window of instance "b" expires.
OtherTimerFires ==
    /\ other.gen.pc = "task_any"
    /\ TimerFired(other.gen.attempt) \notin {other.inbox[k] : k \in 1..Len(other.inbox)}
    /\ other' = [other EXCEPT !.inbox = Append(@, TimerFired(other.gen.attempt))]

\* Mutant: the event is raised for instance "a" whatever the route says.
raise_event_target_Fixed(instance_id) == "a"

\* client.raise_event(instance_id, USER_CHOICE_EVENT, body): the instance the
\* event is raised for.
raise_event_target(instance_id) == instance_id

\* POST travel/choice/{instanceId} with two instances: the event goes to the
\* instance the route names.
send_human_approval_to(route_param) ==
    IF IsNone(route_param)
    THEN send_human_approval(FALSE) /\ UNCHANGED aux
    ELSE LET instance_id == Get(route_param)
             target == raise_event_target(instance_id)
             exists == IF target = "a" THEN runtimeStatus # "NotFound"
                       ELSE other.gen.runtimeStatus # "NotFound"
             sent == [other.sent EXCEPT ![instance_id] = IF exists THEN @ + 1 ELSE @]
         IN  /\ other.sent[instance_id] < (IF instance_id = "a" THEN MaxSignals
                                           ELSE MaxOtherSignals)
             /\ IF target = "a"
                THEN /\ send_human_approval(TRUE)
                     /\ other' = [other EXCEPT !.sent = sent]
                ELSE /\ other' = [other EXCEPT
                            !.sent = sent,
                            !.raised = IF exists THEN @ + 1 ELSE @,
                            !.inbox = IF other.gen.runtimeStatus = "Running"
                                      THEN Append(@, Event(other.raised + 1)) ELSE @]
                     /\ UNCHANGED <<instance, raised>>
             /\ UNCHANGED <<coerce_result, coerce_return, history, opened, clock>>


IsolationNext ==
    \/ (\E body \in Inputs : start_orchestration(body)) /\ UNCHANGED aux
    \/ OrchestrationStarts /\ UNCHANGED aux
    \/ (\E response \in ReplayFlightResponses(attempt) : FlightInfoAgentReturns(response))
           /\ UNCHANGED aux
    \/ NotifyUserReturns /\ UNCHANGED aux
    \/ TaskAnyReturns /\ UNCHANGED aux
    \/ (\E result \in ReplayChoiceResults : ChoiceAgentReturns(result)) /\ UNCHANGED aux
    \/ SummaryAgentReturns /\ UNCHANGED aux
    \/ SummarizeReturns /\ UNCHANGED aux
    \/ AgentRunFails /\ UNCHANGED aux
    \/ (\E i \in Iterations : TimerFires(i)) /\ UNCHANGED aux
    \/ \E route_param \in RouteParams : send_human_approval_to(route_param)
    \/ (\E body \in Inputs : OtherStarts(body))
           /\ UNCHANGED <<instance, raised, coerce_result, coerce_return, history, opened,
                          clock>>
    \/ (\E r \in OtherResults : OtherResumes(r))
           /\ UNCHANGED <<instance, raised, coerce_result, coerce_return, history, opened,
                          clock>>
    \/ OtherTimerFires
           /\ UNCHANGED <<instance, raised, coerce_result, coerce_return, history, opened,
                          clock>>

IsolationSpec == Init /\ [][IsolationNext]_vars

\* A step of the instance taken alone.
InstanceStep ==
    \/ \E body \in Inputs : start_orchestration(body)
    \/ OrchestrationStarts
    \/ \E response \in FlightResponses(attempt) : FlightInfoAgentReturns(response)
    \/ NotifyUserReturns
    \/ TaskAnyReturns
    \/ \E result \in ChoiceResults : ChoiceAgentReturns(result)
    \/ SummaryAgentReturns
    \/ SummarizeReturns
    \/ AgentRunFails
    \/ \E has_instance_id \in BOOLEAN : send_human_approval(has_instance_id)
    \/ \E i \in Iterations : TimerFires(i)

\* The state of instance "b": all of other but the count of addressed events.
other_instance == <<other.input, other.gen, other.inbox, other.raised>>

C15_Routing ==
    /\ raised = other.sent["a"]
    /\ other.raised = other.sent["b"]
    /\ \A k \in 1..Len(inbox) : inbox[k].type = "event" => inbox[k].id <= other.sent["a"]
    /\ \A k \in 1..Len(other.inbox) :
           other.inbox[k].type = "event" => other.inbox[k].id <= other.sent["b"]
    /\ choice_result <= other.sent["a"]
    /\ other.gen.choice_result <= other.sent["b"]

C15_Step ==
    /\ other_instance' # other_instance => UNCHANGED <<instance, raised>>
    /\ <<instance, raised>>' # <<instance, raised>> =>
           /\ other_instance' = other_instance
           /\ InstanceStep
    /\ (runtimeStatus' = "Failed" /\ runtimeStatus # "Failed") =>
           other_instance' = other_instance
    /\ (other.gen.runtimeStatus' = "Failed" /\ other.gen.runtimeStatus # "Failed") =>
           UNCHANGED <<instance, raised>>

\* C15: an instance has received exactly the events that requests addressed
\* to it, so what its wait consumes was raised for it; no step changes both
\* instances, the step in which one fails changes nothing of the other, and
\* whatever instance "a" does beside instance "b" is a step it can take alone.
C15_Isolation == [] C15_Routing /\ [][C15_Step]_vars

\* Instance "a" failed on the event raised for it, instance "b" completed on
\* its own.
C15_Witness ==
    /\ failure = OutOfRangeError
    /\ raised = 1
    /\ other.gen.runtimeStatus = "Completed"
    /\ other.gen.choice_result = 1
    /\ other.sent = [id \in InstanceIds |-> 1]

\* ------------------------------------------------------------------ C16
\* The instance under the assumptions of the claim: the runtime runs the
\* orchestrator when it can, every agent run and activity returns or raises,
\* and a timer that can fire does. No request of a client is ever required.
Resumes ==
    \/ OrchestrationStarts
    \/ \E response \in ReplayFlightResponses(attempt) : FlightInfoAgentReturns(response)
    \/ NotifyUserReturns
    \/ TaskAnyReturns
    \/ \E result \in ReplayChoiceResults : ChoiceAgentReturns(result)
    \/ SummaryAgentReturns
    \/ SummarizeReturns
    \/ AgentRunFails

FairNext ==
    \/ (\E body \in Inputs : start_orchestration(body)) /\ UNCHANGED aux
    \/ OrchestrationStarts /\ UNCHANGED aux
    \/ (\E response \in ReplayFlightResponses(attempt) : FlightInfoAgentReturns(response))
           /\ UNCHANGED aux
    \/ NotifyUserReturns /\ UNCHANGED aux
    \/ TaskAnyReturns /\ UNCHANGED aux
    \/ (\E result \in ReplayChoiceResults : ChoiceAgentReturns(result)) /\ UNCHANGED aux
    \/ SummaryAgentReturns /\ UNCHANGED aux
    \/ SummarizeReturns /\ UNCHANGED aux
    \/ AgentRunFails /\ UNCHANGED aux
    \/ (\E has_instance_id \in BOOLEAN : send_human_approval(has_instance_id))
           /\ UNCHANGED aux
    \/ (\E i \in Iterations : TimerFires(i)) /\ UNCHANGED aux

FairSpec ==
    /\ Init
    /\ [][FairNext]_vars
    /\ WF_vars(Resumes /\ UNCHANGED aux)
    /\ WF_vars((\E i \in Iterations : TimerFires(i)) /\ UNCHANGED aux)

\* C16: a started instance ends Completed or Failed, whatever the clients
\* do or fail to do, and never counts more than max_attempts iterations.
C16_Termination ==
    /\ [] (attempt <= max_attempts)
    /\ (runtimeStatus # "NotFound") ~> Terminal

\* No event was ever raised, and the instance has ended.
C16_Witness ==
    /\ Terminal
    /\ raised = 0
    /\ resolved[1] = "timer"

\* ------------------------------------------------------------------ C13
\* The instance and its clients, the client that polls the status included.
StatusNext ==
    \/ FairNext
    \/ \E route_param \in RouteParams : StatusRequest(route_param)

StatusSpec == Init /\ [][StatusNext]_vars

Exists(route_param) == route_param = Some(InstanceId) /\ runtimeStatus # "NotFound"

\* What holds of every response whatever the output field is.
C13_Codes(route_param, r) ==
    /\ IsNone(route_param) => r = HttpResponse(400, ErrorBody("Missing instanceId"))
    /\ (~IsNone(route_param) /\ ~Exists(route_param)) =>
           r = HttpResponse(404, ErrorBody("Instance not found."))
    /\ Exists(route_param) =>
           /\ r.status_code = 200
           /\ r.body.instanceId = Some(InstanceId)
           /\ r.body.runtimeStatus = Some(runtimeStatus)
           /\ r.body.workflowStatus = Some(custom_status)
           /\ runtimeStatus = "Completed" =>
                  r.body.output = Some(Outcome(selected_flight))

\* C13 as stated: 400 without an id, 404 'Instance not found.' for an id
\* without an instance, 200 with runtime status and status message for an
\* instance that exists, and an output field only when it is Completed.
C13_OutputOnlyWhenCompleted ==
    \A route_param \in RouteParams :
        \A r \in get_orchestration_status(route_param) :
            /\ C13_Codes(route_param, r)
            /\ (Exists(route_param) /\ ~IsNone(r.body.output)) =>
                   runtimeStatus = "Completed"

\* C13 (amended): the same codes and fields, and an output field only when
\* the instance is terminal: the chosen option for a Completed instance, the
\* failure text, if the runtime reports one, for a Failed instance.
C13_StatusProjection ==
    \A route_param \in RouteParams :
        \A r \in get_orchestration_status(route_param) :
            /\ C13_Codes(route_param, r)
            /\ (Exists(route_param) /\ ~IsNone(r.body.output)) =>
                   /\ Terminal
                   /\ runtimeStatus = "Failed" => r.body.output = Some(failure)

\* A Failed instance whose status response carries an output field.
C13_Witness ==
    /\ runtimeStatus = "Failed"
    /\ \E r \in get_orchestration_status(Some(InstanceId)) :
           r.status_code = 200 /\ r.body.output = Some(failure)

\* ------------------------------------------------------------------ C17
\* The instance with a record of its windows: when notify_user has returned
\* and the wait of the iteration is registered, opened keeps how many events
\* had been raised until then.
OpensWindow ==
    /\ opened' = IF pc' = "task_any" THEN [opened EXCEPT ![attempt] = raised] ELSE opened
    /\ UNCHANGED <<coerce_result, coerce_return, history, other, clock>>

WindowNext ==
    \/ (\E body \in Inputs : start_orchestration(body)) /\ UNCHANGED aux
    \/ OrchestrationStarts /\ UNCHANGED aux
    \/ (\E response \in ReplayFlightResponses(attempt) : FlightInfoAgentReturns(response))
           /\ UNCHANGED aux
    \/ NotifyUserReturns /\ OpensWindow
    \/ TaskAnyReturns /\ UNCHANGED aux
    \/ (\E result \in ReplayChoiceResults : ChoiceAgentReturns(result)) /\ UNCHANGED aux
    \/ SummaryAgentReturns /\ UNCHANGED aux
    \/ SummarizeReturns /\ UNCHANGED aux
    \/ AgentRunFails /\ UNCHANGED aux
    \/ (\E has_instance_id \in BOOLEAN : send_human_approval(has_instance_id))
           /\ UNCHANGED aux
    \/ (\E i \in Iterations : TimerFires(i)) /\ UNCHANGED aux

WindowSpec == Init /\ [][WindowNext]_vars

\* The event the window of the current iteration was resolved by was raised
\* after that window had opened.
C17_RaisedInWindow ==
    (attempt >= 1 /\ resolved[attempt] = "signal") => choice_result > opened[attempt]

\* The step that consumes an event consumes one that is queued, and takes it
\* off the queue: no event resolves two windows.
C17_ConsumeStep ==
    (pc = "task_any" /\ pc' = "choice_agent") =>
        /\ \E k \in 1..Len(inbox) : inbox[k] = Event(choice_result')
        /\ \A k \in 1..Len(inbox') : inbox'[k] # Event(choice_result')
        /\ choice_result' > choice_result

\* C17: every event that resolves the window of an iteration was raised
\* while that window was open, so none raised while the instance was
\* searching or notifying, and none left over from an earlier window, decides
\* a later iteration; and each raised event resolves at most one window.
C17_SignalInItsWindow == [] C17_RaisedInWindow /\ [][C17_ConsumeStep]_vars

\* ------------------------------------------------------------------ C18
\* The positions in calls of the operations of that kind and name.
Positions(op, name) == {k \in 1..Len(calls) : calls[k].op = op /\ calls[k].name = name}

C18_Order ==
    /\ Count("agent", TRAVEL_SUMMARY_AGENT_NAME) <= 1
    /\ Count("activity", "summarize") <= 1
    /\ Count("agent", TRAVEL_SUMMARY_AGENT_NAME) = 1 =>
           /\ HasSelection
           /\ SelectionOf \in 1..BatchSize
           /\ selected_flight = get_flights(flights_json)[SelectionOf]
           /\ resolved[attempt] = "signal"
           /\ \A k \in Positions("agent", TRAVEL_SUMMARY_AGENT_NAME) :
                  /\ k >= Len(calls) - 1
                  /\ calls[k - 1] =
                         Call("agent", USER_CHOICE_PROCESSOR_AGENT_NAME, attempt)
    /\ Count("activity", "summarize") = 1 =>
           /\ LastCall = Call("activity", "summarize", attempt)
           /\ calls[Len(calls) - 1] = Call("agent", TRAVEL_SUMMARY_AGENT_NAME, attempt)
    /\ runtimeStatus = "Completed" =>
           /\ Count("agent", TRAVEL_SUMMARY_AGENT_NAME) = 1
           /\ Count("activity", "summarize") = 1
    /\ failure \in {TimeoutError, RuntimeError} \cup ValidationFailures =>
           /\ Count("agent", TRAVEL_SUMMARY_AGENT_NAME) = 0
           /\ Count("activity", "summarize") = 0

C18_Step ==
    /\ calls' # calls =>
           LET last == calls'[Len(calls')]
           IN  /\ last.name = TRAVEL_SUMMARY_AGENT_NAME
                      => (pc = "choice_agent" /\ pc' = "summary_agent")
               /\ last.name = "summarize"
                      => (pc = "summary_agent" /\ pc' = "summarize")
    /\ (runtimeStatus' = "Completed" /\ runtimeStatus # "Completed")
           => (pc = "summarize" /\ calls' = calls)

\* C18: the summary agent is run at most once, by the episode that accepted
\* an in-range selection, and summarize is called at most once, by the
\* episode the summary agent's run resumes; the instance completes only when
\* summarize returns, so a Completed instance has had both, in that order,
\* and an instance failed by timeout, exhausted budget, validation or
\* coercion has had neither.
C18_SummaryOrder == [] C18_Order /\ [][C18_Step]_vars

\* Completed in the first iteration: the last two operations scheduled are
\* the summary agent's run and summarize.
C18_Witness ==
    /\ runtimeStatus = "Completed"
    /\ attempt = 1
    /\ Len(calls) = 7
    /\ calls[6] = Call("agent", TRAVEL_SUMMARY_AGENT_NAME, 1)
    /\ calls[7] = Call("activity", "summarize", 1)

\* ------------------------------------------------------------------ C19
\* The instance with a clock. An episode of the orchestrator reads the time
\* of the clock as context.current_utc_datetime.
\*
\* Mutant: the timer is set to one hour after time 0.
timer_fire_at_Fixed(current_utc_datetime) == Hour

\* context.current_utc_datetime + timedelta(hours=1)
timer_fire_at(current_utc_datetime) == current_utc_datetime + Hour

\* Time passes; it is counted from the start of the instance.
Tick ==
    /\ runtimeStatus = "Running"
    /\ clock.now < MaxTime
    /\ clock' = [clock EXCEPT !.now = @ + 1]
    /\ UNCHANGED <<instance, raised, coerce_result, coerce_return, history, other, opened>>

\* notify_user has returned: the window opens now and its timer is created.
CreatesTimer ==
    /\ clock' = IF pc' = "task_any"
                THEN [clock EXCEPT !.opened_at[attempt] = clock.now,
                                   !.fire_at[attempt] = timer_fire_at(clock.now)]
                ELSE clock
    /\ UNCHANGED <<coerce_result, coerce_return, history, other, opened>>

\* The results the timed instance is given: one flight, and its selection or
\* a refinement.
ClockFlightResponses(g) == {JsonText(JObject("list", <<Flight(g, 1, TRUE)>>))}
ClockChoiceResults ==
    {[structured_response |-> Part("valid", uc), response |-> Part("absent", NoChoice)] :
        uc \in {UserChoice(Some(1), None), UserChoice(None, Some(<<"a">>))}}

\* The runtime fires a timer at the time it was created for, or later.
Due(i) == clock.now >= clock.fire_at[i]

ClockNext ==
    \/ (\E body \in Inputs : start_orchestration(body)) /\ UNCHANGED aux
    \/ OrchestrationStarts /\ UNCHANGED aux
    \/ (\E response \in ClockFlightResponses(attempt) : FlightInfoAgentReturns(response))
           /\ UNCHANGED aux
    \/ NotifyUserReturns /\ CreatesTimer
    \/ TaskAnyReturns /\ UNCHANGED aux
    \/ (\E result \in ClockChoiceResults : ChoiceAgentReturns(result)) /\ UNCHANGED aux
    \/ SummaryAgentReturns /\ UNCHANGED aux
    \/ SummarizeReturns /\ UNCHANGED aux
    \/ (\E has_instance_id \in BOOLEAN : send_human_approval(has_instance_id))
           /\ UNCHANGED aux
    \/ (\E i \in Iterations : Due(i) /\ TimerFires(i)) /\ UNCHANGED aux
    \/ Tick

ClockSpec == Init /\ [][ClockNext]_vars

\* The window of the current iteration is open and its hour is not over.
InTime == pc = "task_any" /\ clock.now < clock.opened_at[attempt] + Hour

C19_Windows ==
    /\ \A i \in Iterations :
           /\ timers[i] # "none" => clock.fire_at[i] = clock.opened_at[i] + Hour
           /\ timers[i] \in {"fired", "expired"} => clock.now >= clock.opened_at[i] + Hour
           /\ resolved[i] = "timer" => clock.now >= clock.opened_at[i] + Hour
    /\ \A i, j \in Iterations :
           (i < j /\ timers[j] # "none") => clock.opened_at[i] <= clock.opened_at[j]
    /\ Cardinality({i \in Iterations : timers[i] = "pending"}) <= 1
    /\ (InTime /\ \E k \in 1..Len(inbox) : inbox[k].type = "event") =>
           inbox[Winner(inbox, attempt)].type = "event"

C19_Step ==
    /\ (pc = "notify_user" /\ pc' = "task_any") =>
           /\ timers'[attempt] = "pending"
           /\ clock'.opened_at[attempt] = clock.now
           /\ clock'.fire_at[attempt] = clock.now + Hour
    /\ (InTime /\ Len(inbox') > Len(inbox)) =>
           /\ inbox'[Len(inbox')] # TimerFired(attempt)
           /\ inbox'[Len(inbox')].type = "event" =>
                  inbox'[Winner(inbox', attempt)].type = "event"
    /\ (InTime /\ pc' # pc) => pc' = "choice_agent"

\* C19: the episode that opens the window of an iteration creates that
\* iteration's timer for one hour after the time of that episode, whatever
\* time has passed before; no timer fires, and no window times out, before
\* its hour is over; an event that arrives while the hour is not over is the
\* first completion of the window, which is then resolved by an event; and
\* at most one timer is pending.
C19_TimerPerWindow == [] C19_Windows /\ [][C19_Step]_vars

\* The first window was resolved by an event within its hour: the second
\* opened half an hour after the first; it timed out a full hour after it
\* had opened.
C19_Witness ==
    /\ resolved[1] = "signal"
    /\ clock.opened_at[2] = clock.opened_at[1] + 1
    /\ resolved[2] = "timer"
    /\ clock.now = clock.opened_at[2] + Hour

====
